---- MODULE Spec2Model ----
(***************************************************************************)
(* PackStream codec of the neo4j JavaScript driver                         *)
(* (src/v1/internal/packstream.js): Packer, Unpacker, Structure.           *)
(*                                                                         *)
(* Bytes are naturals 0..255.  What the Packer does to its channel and to  *)
(* the caller's onError callback is an event log: a sequence of            *)
(* [op |-> "write", byte], [op |-> "onError", msg] and [op |-> "throw"]    *)
(* records in the order the code produces them.                            *)
(*                                                                         *)
(* JavaScript numbers used as sizes may exceed 2^31, which the model       *)
(* checker's integers cannot hold, so a size is a two-limb natural         *)
(* [hi, lo] standing for hi * 65536 + lo.                                  *)
(***************************************************************************)
EXTENDS Integers, Sequences, FiniteSets, TLC

VARIABLES ch, packed, ends, pos, unpacked, structMappers, fnIn, fnOut

vars == <<ch, packed, ends, pos, unpacked, structMappers, fnIn, fnOut>>

(***************************************************************************)
(* Marker bytes.                                                           *)
(***************************************************************************)
TINY_STRING == 128
TINY_LIST == 144
TINY_MAP == 160
TINY_STRUCT == 176
NULL == 192
FLOAT_64 == 193
FALSE_ == 194
TRUE_ == 195
INT_8 == 200
INT_16 == 201
INT_32 == 202
INT_64 == 203
STRING_8 == 208
STRING_16 == 209
STRING_32 == 210
LIST_8 == 212
LIST_16 == 213
LIST_32 == 214
MAP_8 == 216
MAP_16 == 217
MAP_32 == 218
STRUCT_8 == 220
STRUCT_16 == 221

(***************************************************************************)
(* JavaScript numbers as two-limb naturals, and the bit operations the     *)
(* code applies to them.                                                   *)
(***************************************************************************)
Limb == 65536

MinInt32 == (-2147483647) - 1

\* The number k, 0 <= k < 2^31.
N(k) == [hi |-> k \div Limb, lo |-> k % Limb]

\* hi * 65536 + lo as a number.
Num(h, l) == [hi |-> h, lo |-> l]

NumLt(a, b) == a.hi < b.hi \/ (a.hi = b.hi /\ a.lo < b.lo)

\* Math.floor(a / 2^k) for the three divisors the code uses.
NumDiv256(a) == [hi |-> a.hi \div 256, lo |-> (a.hi % 256) * 256 + (a.lo \div 256)]

NumDiv65536(a) == [hi |-> a.hi \div Limb, lo |-> a.hi % Limb]

NumDiv16777216(a) == NumDiv256(NumDiv65536(a))

\* a % 256 of a non-negative number.
NumMod256(a) == a.lo % 256

\* v >> 0 of a non-negative number: ToInt32 of its integer part.
Shr0(a) ==
  LET h == a.hi % Limb
  IN  IF h < 32768 THEN h * Limb + a.lo ELSE (h - Limb) * Limb + a.lo

\* v % m as JavaScript computes it: the sign of the dividend.
JsMod(v, m) == IF v >= 0 THEN v % m ELSE 0 - ((0 - v) % m)

\* Bit i of the byte a.
Bit(a, i) == (a \div 2^i) % 2

\* The byte whose bit i is bits[i + 1].
Byte(bits) ==
  (bits[1] + 2 * bits[2] + 4 * bits[3] + 8 * bits[4])
    + 16 * (bits[5] + 2 * bits[6] + 4 * bits[7] + 8 * bits[8])

\* a | b and a & b on bytes.
BitOr(a, b) ==
  Byte([k \in 1..8 |-> IF Bit(a, k - 1) = 1 \/ Bit(b, k - 1) = 1 THEN 1 ELSE 0])

BitAnd(a, b) ==
  Byte([k \in 1..8 |-> IF Bit(a, k - 1) = 1 /\ Bit(b, k - 1) = 1 THEN 1 ELSE 0])

\* The size thresholds of the header tiers.
Size0x10 == N(16)
Size0x100 == N(256)
Size0x10000 == Num(1, 0)
Size0x100000000 == Num(Limb, 0)

(***************************************************************************)
(* The channel (byte sink) and the onError callback, as events.            *)
(***************************************************************************)
W(b) == [op |-> "write", byte |-> b]

writeUInt8(v) == <<W(v % 256)>>

writeInt8(v) == <<W(v % 256)>>

writeInt16(v) == <<W((v \div 256) % 256), W(v % 256)>>

writeInt32(v) ==
  <<W((v \div 16777216) % 256), W((v \div 65536) % 256),
    W((v \div 256) % 256), W(v % 256)>>

writeBytes(bytes) == [i \in 1..Len(bytes) |-> W(bytes[i])]

\* onError(newError(msg)); calling an onError that was not passed throws.
CallOnError(onError, msg) ==
  IF onError THEN <<[op |-> "onError", msg |-> msg]>>
  ELSE <<[op |-> "throw", err |-> "TypeError: onError is not a function"]>>

Thrown(events) == \E i \in 1..Len(events) : events[i].op = "throw"

Errors(events) == \E i \in 1..Len(events) : events[i].op = "onError"

\* a then b: an exception thrown in a ends the operation.
Then(a, b) == IF Thrown(a) THEN a ELSE a \o b

\* The bytes a log wrote, in order.
Written(events) ==
  LET w == SelectSeq(events, LAMBDA e : e.op = "write")
  IN  [k \in 1..Len(w) |-> w[k].byte]

Min(a, b) == IF a < b THEN a ELSE b

\* The concatenation of s[lo..hi], a sequence of sequences, a quarter of
\* the range at a time.
RECURSIVE FlatRange(_, _, _)
FlatRange(s, lo, hi) ==
  LET q == (hi - lo + 4) \div 4
  IN  CASE lo > hi -> <<>>
        [] lo = hi -> s[lo]
        [] lo + 1 = hi -> s[lo] \o s[hi]
        [] OTHER ->
             (FlatRange(s, lo, lo + q - 1)
                \o FlatRange(s, lo + q, Min(lo + 2 * q - 1, hi)))
               \o (FlatRange(s, lo + 2 * q, Min(lo + 3 * q - 1, hi))
                     \o FlatRange(s, lo + 3 * q, hi))

Flatten(s) == FlatRange(s, 1, Len(s))

\* The events of steps run one after another: those up to the first throw.
Cut(events) ==
  IF Thrown(events)
  THEN LET t == CHOOSE i \in 1..Len(events) :
                  /\ events[i].op = "throw"
                  /\ \A j \in 1..(i - 1) : events[j].op # "throw"
       IN  SubSeq(events, 1, t)
  ELSE events

(***************************************************************************)
(* Integer: a 64-bit signed value as (high, low), both int32.  Comparison  *)
(* is by the mathematical value high * 2^32 + (low mod 2^32).              *)
(***************************************************************************)
Integer(low, high) == [type |-> "int", low |-> low, high |-> high]

\* int(v) for an int32 v.
int(v) == Integer(v, IF v < 0 THEN 0 - 1 ELSE 0)

\* a < b for the low words read as unsigned 32-bit numbers.
ULt(a, b) == IF (a < 0) = (b < 0) THEN a < b ELSE b < 0

lessThan(x, y) == x.high < y.high \/ (x.high = y.high /\ ULt(x.low, y.low))

greaterThanOrEqual(x, y) == ~lessThan(x, y)

\* The number 0x80000000 as an Integer: it is no int32.
Int0x80000000 == Integer(MinInt32, 0)

(***************************************************************************)
(* utf8.encode / utf8.decode over a small alphabet of 1-, 2- and 3-byte    *)
(* characters.  A string is a sequence of characters.                      *)
(***************************************************************************)
Alphabet == {"a", "x", "e'", "EUR"}

Utf8Of(c) ==
  CASE c = "a" -> <<97>>
    [] c = "x" -> <<120>>
    [] c = "e'" -> <<195, 169>>
    [] c = "EUR" -> <<226, 130, 172>>

utf8encode(x) == Flatten([i \in 1..Len(x) |-> Utf8Of(x[i])])

\* The character a byte group stands for; U+FFFD when it is none.
CharOf(bs) ==
  IF \E c \in Alphabet : Utf8Of(c) = bs
  THEN CHOOSE c \in Alphabet : Utf8Of(c) = bs
  ELSE "U+FFFD"

\* A byte that is not a continuation byte (10xxxxxx) starts a character.
IsLead(b) == b \div 64 # 2

utf8decode(bytes) ==
  LET n == Len(bytes)
      starts == SelectSeq([i \in 1..n |-> i], LAMBDA i : i = 1 \/ IsLead(bytes[i]))
      stop(k) == IF k = Len(starts) THEN n ELSE starts[k + 1] - 1
  IN  [k \in 1..Len(starts) |-> CharOf(SubSeq(bytes, starts[k], stop(k)))]

(***************************************************************************)
(* Packer: integers, strings and the container headers.                    *)
(***************************************************************************)
\* packInteger with the tier chosen from the low word alone.
packInteger_lowWordOnly(x) ==
  LET high == x.high
      low == x.low
  IN  IF 0 - 16 <= low /\ low < 128
      THEN writeInt8(low)
      ELSE IF 0 - 128 <= low /\ low < 0 - 16
      THEN writeUInt8(INT_8) \o writeInt8(low)
      ELSE IF 0 - 32768 <= low /\ low < 32768
      THEN writeUInt8(INT_16) \o writeInt16(low)
      ELSE IF greaterThanOrEqual(x, int(MinInt32)) /\ lessThan(x, Int0x80000000)
      THEN writeUInt8(INT_32) \o writeInt32(low)
      ELSE writeUInt8(INT_64) \o writeInt32(high) \o writeInt32(low)

packInteger(x) ==
  LET high == x.high
      low == x.low
  IN  IF greaterThanOrEqual(x, int(0 - 16)) /\ lessThan(x, int(128))
      THEN writeInt8(low)
      ELSE IF greaterThanOrEqual(x, int(0 - 128)) /\ lessThan(x, int(0 - 16))
      THEN writeUInt8(INT_8) \o writeInt8(low)
      ELSE IF greaterThanOrEqual(x, int(0 - 32768)) /\ lessThan(x, int(32768))
      THEN writeUInt8(INT_16) \o writeInt16(low)
      ELSE IF greaterThanOrEqual(x, int(MinInt32)) /\ lessThan(x, Int0x80000000)
      THEN writeUInt8(INT_32) \o writeInt32(low)
      ELSE writeUInt8(INT_64) \o writeInt32(high) \o writeInt32(low)

\* packString up to its writeBytes: the header for a string of `size` bytes.
packStringHeader(size, onError) ==
  IF NumLt(size, Size0x10)
  THEN writeUInt8(BitOr(TINY_STRING, Shr0(size)))
  ELSE IF NumLt(size, Size0x100)
  THEN writeUInt8(STRING_8) \o writeUInt8(Shr0(size))
  ELSE IF NumLt(size, Size0x10000)
  THEN writeUInt8(STRING_16) \o writeUInt8(Shr0(NumDiv256(size)))
         \o writeUInt8(NumMod256(size))
  ELSE IF NumLt(size, Size0x100000000)
  THEN writeUInt8(STRING_32)
         \o writeUInt8(JsMod(Shr0(NumDiv16777216(size)), 256))
         \o writeUInt8(JsMod(Shr0(NumDiv65536(size)), 256))
         \o writeUInt8(JsMod(Shr0(NumDiv256(size)), 256))
         \o writeUInt8(NumMod256(size))
  ELSE CallOnError(onError, [text |-> "UTF-8 strings of size", size |-> size])

packString(x, onError) ==
  LET bytes == utf8encode(x)
      size == N(Len(bytes))
  IN  IF NumLt(size, Size0x100000000)
      THEN packStringHeader(size, onError) \o writeBytes(bytes)
      ELSE packStringHeader(size, onError)

packListHeader(size, onError) ==
  IF NumLt(size, Size0x10)
  THEN writeUInt8(BitOr(TINY_LIST, Shr0(size)))
  ELSE IF NumLt(size, Size0x100)
  THEN writeUInt8(LIST_8) \o writeUInt8(Shr0(size))
  ELSE IF NumLt(size, Size0x10000)
  THEN writeUInt8(LIST_16) \o writeUInt8(JsMod(Shr0(NumDiv256(size)), 256))
         \o writeUInt8(NumMod256(size))
  ELSE IF NumLt(size, Size0x100000000)
  THEN writeUInt8(LIST_32)
         \o writeUInt8(JsMod(Shr0(NumDiv16777216(size)), 256))
         \o writeUInt8(JsMod(Shr0(NumDiv65536(size)), 256))
         \o writeUInt8(JsMod(Shr0(NumDiv256(size)), 256))
         \o writeUInt8(NumMod256(size))
  ELSE CallOnError(onError, [text |-> "Lists of size", size |-> size])

\* packMapHeader with the two bytes of the 16-bit size in little-endian order.
packMapHeader_littleEndian(size, onError) ==
  IF NumLt(size, Size0x10)
  THEN writeUInt8(BitOr(TINY_MAP, Shr0(size)))
  ELSE IF NumLt(size, Size0x100)
  THEN writeUInt8(MAP_8) \o writeUInt8(Shr0(size))
  ELSE IF NumLt(size, Size0x10000)
  THEN writeUInt8(MAP_16) \o writeUInt8(NumMod256(size))
         \o writeUInt8(Shr0(NumDiv256(size)))
  ELSE IF NumLt(size, Size0x100000000)
  THEN writeUInt8(MAP_32)
         \o writeUInt8(JsMod(Shr0(NumDiv16777216(size)), 256))
         \o writeUInt8(JsMod(Shr0(NumDiv65536(size)), 256))
         \o writeUInt8(JsMod(Shr0(NumDiv256(size)), 256))
         \o writeUInt8(NumMod256(size))
  ELSE CallOnError(onError, [text |-> "Maps of size", size |-> size])

packMapHeader(size, onError) ==
  IF NumLt(size, Size0x10)
  THEN writeUInt8(BitOr(TINY_MAP, Shr0(size)))
  ELSE IF NumLt(size, Size0x100)
  THEN writeUInt8(MAP_8) \o writeUInt8(Shr0(size))
  ELSE IF NumLt(size, Size0x10000)
  THEN writeUInt8(MAP_16) \o writeUInt8(Shr0(NumDiv256(size)))
         \o writeUInt8(NumMod256(size))
  ELSE IF NumLt(size, Size0x100000000)
  THEN writeUInt8(MAP_32)
         \o writeUInt8(JsMod(Shr0(NumDiv16777216(size)), 256))
         \o writeUInt8(JsMod(Shr0(NumDiv65536(size)), 256))
         \o writeUInt8(JsMod(Shr0(NumDiv256(size)), 256))
         \o writeUInt8(NumMod256(size))
  ELSE CallOnError(onError, [text |-> "Maps of size", size |-> size])

packStructHeader(size, signature, onError) ==
  IF NumLt(size, Size0x10)
  THEN writeUInt8(BitOr(TINY_STRUCT, Shr0(size))) \o writeUInt8(signature)
  ELSE IF NumLt(size, Size0x100)
  THEN writeUInt8(STRUCT_8) \o writeUInt8(Shr0(size)) \o writeUInt8(signature)
  ELSE IF NumLt(size, Size0x10000)
  THEN writeUInt8(STRUCT_16) \o writeUInt8(Shr0(NumDiv256(size)))
         \o writeUInt8(NumMod256(size))
  ELSE CallOnError(onError, [text |-> "Structures of size", size |-> size])

(***************************************************************************)
(* Values.  What packable() is handed: null, booleans, numbers (floats),   *)
(* Integer, strings, Arrays, Structures, plain objects (maps, as their     *)
(* entries in Object.keys order), undefined, and a function (a host value  *)
(* that matches no branch).                                                *)
(***************************************************************************)
NullV == [type |-> "null"]
BoolV(b) == [type |-> "bool", b |-> b]
FloatV(f) == [type |-> "float", f |-> f]
StringV(chars) == [type |-> "string", chars |-> chars]
ListV(elems) == [type |-> "list", elems |-> elems]
MapV(entries) == [type |-> "map", entries |-> entries]
Structure(signature, fields) ==
  [type |-> "struct", signature |-> signature, fields |-> fields]
UndefinedV == [type |-> "undefined"]
FunctionV == [type |-> "function"]

Entry(key, val) == [key |-> key, val |-> val]

\* writeFloat64: the IEEE-754 binary64 bytes of the sampled numbers.
Floats == {"0", "1.5", "pi"}

Float64Bytes(f) ==
  CASE f = "0" -> <<0, 0, 0, 0, 0, 0, 0, 0>>
    [] f = "1.5" -> <<63, 248, 0, 0, 0, 0, 0, 0>>
    [] f = "pi" -> <<64, 9, 33, 251, 84, 68, 45, 24>>

writeFloat64(f) == writeBytes(Float64Bytes(f))

packFloat(x) == writeUInt8(FLOAT_64) \o writeFloat64(x.f)

(***************************************************************************)
(* Packer.packable.  packable(x, onError) is what the call itself does     *)
(* (it may report through onError); run(x, onError) is what the function   *)
(* it returns does when called.                                            *)
(***************************************************************************)
RECURSIVE packable(_, _), run(_, _)

\* packStruct: the header, then the field functions; packable hands it no onError.
packStruct(signature, fields, onError) ==
  Then(packStructHeader(N(Len(fields)), signature, FALSE),
       Flatten([i \in 1..Len(fields) |-> run(fields[i], onError)]))

\* The returned function of the Array branch.
runList(x, onError) ==
  Then(packListHeader(N(Len(x.elems)), onError),
       Flatten([i \in 1..Len(x.elems) |->
                  LET e == IF x.elems[i].type = "undefined" THEN NullV ELSE x.elems[i]
                  IN  packable(e, onError) \o run(e, onError)]))

\* The plain-object branch with every key counted, undefined or not.
runMap_countAllKeys(x, onError) ==
  LET keys == x.entries
      count == Len(keys)
  IN  Then(packMapHeader(N(count), onError),
           Flatten([i \in 1..Len(keys) |->
                      IF keys[i].val.type # "undefined"
                      THEN packString(keys[i].key, FALSE)
                             \o packable(keys[i].val, onError)
                             \o run(keys[i].val, onError)
                      ELSE <<>>]))

\* The returned function of the plain-object branch.
runMap(x, onError) ==
  LET keys == x.entries
      defined == SelectSeq(keys, LAMBDA e : e.val.type # "undefined")
      count == Len(defined)
  IN  Then(packMapHeader(N(count), onError),
           Flatten([i \in 1..Len(keys) |->
                      IF keys[i].val.type # "undefined"
                      THEN packString(keys[i].key, FALSE)
                             \o packable(keys[i].val, onError)
                             \o run(keys[i].val, onError)
                      ELSE <<>>]))

packable(x, onError) ==
  IF x.type \in {"null", "bool", "float", "string", "int", "list", "map"}
  THEN <<>>
  ELSE IF x.type = "struct"
  THEN Flatten([i \in 1..Len(x.fields) |-> packable(x.fields[i], onError)])
  ELSE IF onError
  THEN CallOnError(onError, [text |-> "Cannot pack this value", size |-> N(0)])
  ELSE <<>>

run(x, onError) ==
  CASE x.type = "null" -> writeUInt8(NULL)
    [] x.type = "bool" /\ x.b -> writeUInt8(TRUE_)
    [] x.type = "bool" /\ ~x.b -> writeUInt8(FALSE_)
    [] x.type = "float" -> packFloat(x)
    [] x.type = "string" -> packString(x.chars, onError)
    [] x.type = "int" -> packInteger(x)
    [] x.type = "list" -> runList(x, onError)
    [] x.type = "struct" -> packStruct(x.signature, x.fields, onError)
    [] x.type = "map" -> runMap(x, onError)
    [] OTHER -> <<>>

\* packable(x, onError)(): everything up to an exception, if one is thrown.
Pack(x) == Cut(packable(x, TRUE) \o run(x, TRUE))

(***************************************************************************)
(* Unpacker.  The buffer is a byte sequence and a cursor, the number of    *)
(* bytes consumed; every operation returns [val, pos].  A raised error is  *)
(* a value of type "error"; it ends every enclosing call.                  *)
(***************************************************************************)
Ret(val, p) == [val |-> val, pos |-> p]

\* A read past the end of the buffer.
Truncated(p) == Ret([type |-> "error", kind |-> "truncated", text |-> <<>>], p)

IsError(r) == r.val.type = "error"

HexDigit(d) == <<"0", "1", "2", "3", "4", "5", "6", "7", "8", "9",
                 "a", "b", "c", "d", "e", "f">>[d + 1]

\* marker.toString(): decimal digits.
toString16_decimal(marker) ==
  IF marker < 10 THEN <<HexDigit(marker)>>
  ELSE IF marker < 100 THEN <<HexDigit(marker \div 10), HexDigit(marker % 10)>>
  ELSE <<HexDigit(marker \div 100), HexDigit((marker \div 10) % 10),
         HexDigit(marker % 10)>>

\* marker.toString(16)
toString16(marker) ==
  IF marker < 16 THEN <<HexDigit(marker)>>
  ELSE <<HexDigit(marker \div 16), HexDigit(marker % 16)>>

newErrorUnknown(marker) ==
  [type |-> "error", kind |-> "unknown",
   text |-> <<"Unknown packed value with marker ">> \o toString16(marker)]

Signed(v, bits) == IF v >= bits \div 2 THEN v - bits ELSE v

readUInt8(buffer, p) == buffer[p + 1]

readInt8(buffer, p) == Signed(buffer[p + 1], 256)

readUInt16(buffer, p) == buffer[p + 1] * 256 + buffer[p + 2]

readInt16(buffer, p) == Signed(readUInt16(buffer, p), 65536)

readInt32(buffer, p) ==
  Signed(buffer[p + 1], 256) * 16777216 + buffer[p + 2] * 65536
    + buffer[p + 3] * 256 + buffer[p + 4]

readUInt32(buffer, p) == Num(readUInt16(buffer, p), readUInt16(buffer, p + 2))

readFloat64(buffer, p) ==
  LET bytes == SubSeq(buffer, p + 1, p + 8)
  IN  IF \E f \in Floats : Float64Bytes(f) = bytes
      THEN FloatV(CHOOSE f \in Floats : Float64Bytes(f) = bytes)
      ELSE FloatV("other")

Avail(buffer, p, n) == p + n <= Len(buffer)

\* utf8.decode(buffer, length): consumes `length` bytes.
decode(buffer, p, length) ==
  IF NumLt(N(Len(buffer) - p), length) THEN Truncated(Len(buffer))
  ELSE LET n == Shr0(length)
       IN  Ret(StringV(utf8decode(SubSeq(buffer, p + 1, p + n))), p + n)

\* value[key] = v on a plain object: the key is converted to a string.
PropertyKey(k) == IF k.type = "string" THEN k.chars ELSE <<"String", k>>

\* The object after value[items[1]] = items[2], value[items[3]] = items[4], ...:
\* its keys in the order they were first set, each with the value set last.
SetProperties(items) ==
  LET n == Len(items) \div 2
      key(i) == PropertyKey(items[2 * i - 1])
      first == SelectSeq([i \in 1..n |-> i],
                         LAMBDA i : \A j \in 1..(i - 1) : key(j) # key(i))
      last(i) == CHOOSE j \in i..n :
                   key(j) = key(i) /\ \A k \in (j + 1)..n : key(k) # key(i)
  IN  [t \in 1..Len(first) |-> Entry(key(first[t]), items[2 * last(first[t])])]

\* Whether structMappers[signature] of the plain object is set.
HasMapper(mappers, signature) == signature \in DOMAIN mappers

\* How many unpack calls a loop of `size` rounds of `each` calls makes on the
\* buffer before it ends: every successful call consumes a byte, so the loop
\* fails at the latest on the call after the last remaining byte.
Calls(size, each, buffer, p) ==
  LET remaining == Len(buffer) - p
  IN  IF NumLt(N(remaining), size) THEN remaining + 1 ELSE each * Shr0(size)

\* The element of a set of one element.  In Only({F(v) : v \in {e}}) the
\* value v of e is computed once and F applied to it.
Only(S) == CHOOSE out \in S : TRUE

RECURSIVE unpack(_, _, _), unpackRange(_, _, _, _, _)

\* Calls number lo..hi of this.unpack(buffer), one after another, each from
\* where the one before left the cursor; the first error ends them.
unpackRange(lo, hi, buffer, p, mappers) ==
  CASE lo > hi -> Ret([type |-> "values", items |-> <<>>], p)
    [] lo = hi ->
         Only({ IF IsError(r) THEN r
                ELSE Ret([type |-> "values", items |-> <<r.val>>], r.pos) :
                r \in {unpack(buffer, p, mappers)} })
    [] OTHER ->
         Only({ IF IsError(left) THEN left
                ELSE Only({ IF IsError(right) THEN right
                            ELSE Ret([type |-> "values",
                                      items |-> left.val.items \o right.val.items],
                                     right.pos) :
                            right \in {unpackRange((lo + hi) \div 2 + 1, hi,
                                                   buffer, left.pos, mappers)} }) :
                left \in {unpackRange(lo, (lo + hi) \div 2, buffer, p, mappers)} })

\* for (i = 0; i < size; i++) value.push(this.unpack(buffer))
unpackValues(size, buffer, p, mappers) ==
  unpackRange(1, Calls(size, 1, buffer, p), buffer, p, mappers)

unpackList(size, buffer, p, mappers) ==
  Only({ IF IsError(r) THEN r ELSE Ret(ListV(r.val.items), r.pos) :
         r \in {unpackValues(size, buffer, p, mappers)} })

\* for (i = 0; i < size; i++) { key = this.unpack(buffer); value[key] = this.unpack(buffer) }
unpackMap(size, buffer, p, mappers) ==
  Only({ IF IsError(r) THEN r ELSE Ret(MapV(SetProperties(r.val.items)), r.pos) :
         r \in {unpackRange(1, Calls(size, 2, buffer, p), buffer, p, mappers)} })

\* A registered mapper, called as mapper(unpacker, buffer): it unpacks
\* `arity` values from the buffer and builds its object from them.
Mapper(name, arity) == [name |-> name, arity |-> arity]

CallMapper(mapper, buffer, p, mappers) ==
  Only({ IF IsError(r) THEN r
         ELSE Ret([type |-> "mapped", by |-> mapper.name, at |-> p,
                   args |-> r.val.items],
                  r.pos) :
         r \in {unpackValues(N(mapper.arity), buffer, p, mappers)} })

\* unpackStruct that calls the mapper but returns the default Structure.
unpackStruct_mapperResultDropped(size, buffer, p, mappers) ==
  IF ~Avail(buffer, p, 1) THEN Truncated(p)
  ELSE Only({ IF IsError(r) THEN r
              ELSE Ret(Structure(readUInt8(buffer, p), r.val.items), r.pos) :
              r \in {unpackValues(size, buffer, p + 1, mappers)} })

unpackStruct(size, buffer, p, mappers) ==
  IF ~Avail(buffer, p, 1) THEN Truncated(p)
  ELSE LET signature == readUInt8(buffer, p)
       IN  IF HasMapper(mappers, signature)
           THEN CallMapper(mappers[signature], buffer, p + 1, mappers)
           ELSE Only({ IF IsError(r) THEN r
                       ELSE Ret(Structure(signature, r.val.items), r.pos) :
                       r \in {unpackValues(size, buffer, p + 1, mappers)} })

unpack(buffer, p0, mappers) ==
  IF ~Avail(buffer, p0, 1) THEN Truncated(p0)
  ELSE
  LET marker == readUInt8(buffer, p0)
      p == p0 + 1
      markerHigh == BitAnd(marker, 240)
      markerLow == BitAnd(marker, 15)
  IN  CASE marker = NULL -> Ret(NullV, p)
        [] marker = TRUE_ -> Ret(BoolV(TRUE), p)
        [] marker = FALSE_ -> Ret(BoolV(FALSE), p)
        [] marker = FLOAT_64 ->
             IF Avail(buffer, p, 8) THEN Ret(readFloat64(buffer, p), p + 8)
             ELSE Truncated(Len(buffer))
        [] marker >= 0 /\ marker < 128 -> Ret(int(marker), p)
        [] marker >= 240 /\ marker < 256 -> Ret(int(marker - 256), p)
        [] marker = INT_8 ->
             IF Avail(buffer, p, 1) THEN Ret(int(readInt8(buffer, p)), p + 1)
             ELSE Truncated(Len(buffer))
        [] marker = INT_16 ->
             IF Avail(buffer, p, 2) THEN Ret(int(readInt16(buffer, p)), p + 2)
             ELSE Truncated(Len(buffer))
        [] marker = INT_32 ->
             IF Avail(buffer, p, 4) THEN Ret(int(readInt32(buffer, p)), p + 4)
             ELSE Truncated(Len(buffer))
        [] marker = INT_64 ->
             IF Avail(buffer, p, 8)
             THEN LET high == readInt32(buffer, p)
                      low == readInt32(buffer, p + 4)
                  IN  Ret(Integer(low, high), p + 8)
             ELSE Truncated(Len(buffer))
        [] marker = STRING_8 ->
             IF Avail(buffer, p, 1)
             THEN decode(buffer, p + 1, N(readUInt8(buffer, p)))
             ELSE Truncated(Len(buffer))
        [] marker = STRING_16 ->
             IF Avail(buffer, p, 2)
             THEN decode(buffer, p + 2, N(readUInt16(buffer, p)))
             ELSE Truncated(Len(buffer))
        [] marker = STRING_32 ->
             IF Avail(buffer, p, 4)
             THEN decode(buffer, p + 4, readUInt32(buffer, p))
             ELSE Truncated(Len(buffer))
        [] marker = LIST_8 ->
             IF Avail(buffer, p, 1)
             THEN unpackList(N(readUInt8(buffer, p)), buffer, p + 1, mappers)
             ELSE Truncated(Len(buffer))
        [] marker = LIST_16 ->
             IF Avail(buffer, p, 2)
             THEN unpackList(N(readUInt16(buffer, p)), buffer, p + 2, mappers)
             ELSE Truncated(Len(buffer))
        [] marker = LIST_32 ->
             IF Avail(buffer, p, 4)
             THEN unpackList(readUInt32(buffer, p), buffer, p + 4, mappers)
             ELSE Truncated(Len(buffer))
        [] marker = MAP_8 ->
             IF Avail(buffer, p, 1)
             THEN unpackMap(N(readUInt8(buffer, p)), buffer, p + 1, mappers)
             ELSE Truncated(Len(buffer))
        [] marker = MAP_16 ->
             IF Avail(buffer, p, 2)
             THEN unpackMap(N(readUInt16(buffer, p)), buffer, p + 2, mappers)
             ELSE Truncated(Len(buffer))
        [] marker = MAP_32 ->
             IF Avail(buffer, p, 4)
             THEN unpackMap(readUInt32(buffer, p), buffer, p + 4, mappers)
             ELSE Truncated(Len(buffer))
        [] marker = STRUCT_8 ->
             IF Avail(buffer, p, 1)
             THEN unpackStruct(N(readUInt8(buffer, p)), buffer, p + 1, mappers)
             ELSE Truncated(Len(buffer))
        [] marker = STRUCT_16 ->
             IF Avail(buffer, p, 2)
             THEN unpackStruct(N(readUInt16(buffer, p)), buffer, p + 2, mappers)
             ELSE Truncated(Len(buffer))
        [] markerHigh = 128 -> decode(buffer, p, N(markerLow))
        [] markerHigh = 144 -> unpackList(N(markerLow), buffer, p, mappers)
        [] markerHigh = 160 -> unpackMap(N(markerLow), buffer, p, mappers)
        [] markerHigh = 176 -> unpackStruct(N(markerLow), buffer, p, mappers)
        [] OTHER -> Ret(newErrorUnknown(marker), p)

(***************************************************************************)
(* Sampled inputs.                                                         *)
(***************************************************************************)
Rep(n, v) == [i \in 1..n |-> v]

\* Values sent over the stream, all inside the grammar.
StreamValues ==
  { NullV, FloatV("pi"),
    int(0 - 17), Integer(MinInt32, 0),
    StringV(<<"a", "e'">>),
    ListV(<<int(1), UndefinedV, StringV(<<"x">>)>>),
    MapV(<<Entry(<<"a">>, int(1)), Entry(<<"x">>, UndefinedV),
           Entry(<<"EUR">>, ListV(<<BoolV(FALSE)>>))>>),
    Structure(78, <<int(1), StringV(<<"x">>)>>), Structure(82, <<>>),
    Structure(78, Rep(16, NullV)),
    ListV(<<Structure(82, <<NullV, MapV(<<Entry(<<"x">>, FloatV("0"))>>)>>)>>),
    Structure(78, <<int(0 - 60)>> \o Rep(255, NullV)) }

\* The mappers a caller may register, and the signatures it registers them for.
Mappers == {Mapper("Node", 2), Mapper("Unit", 0)}

MappedSignatures == {78}

MaxValues == 2

(***************************************************************************)
(* The stream: a Packer writes values to a channel one after another and   *)
(* an Unpacker reads them back from the same bytes.                        *)
(***************************************************************************)
NoFn == [op |-> "none"]

NotRun == [done |-> FALSE]

Init ==
  /\ ch = <<>>
  /\ packed = <<>>
  /\ ends = <<>>
  /\ pos = 0
  /\ unpacked = <<>>
  /\ structMappers = <<>>
  /\ fnIn = NoFn
  /\ fnOut = NotRun

\* packer.packable(x, onError)()
PackValue(x) ==
  /\ Len(packed) < MaxValues
  /\ ch' = ch \o Written(Pack(x))
  /\ packed' = Append(packed, x)
  /\ ends' = Append(ends, Len(ch'))
  /\ UNCHANGED <<pos, unpacked, structMappers, fnIn, fnOut>>

\* unpacker.unpack(buffer), once for each value sent
UnpackValue ==
  /\ Len(unpacked) < Len(packed)
  /\ LET r == unpack(ch, pos, structMappers)
     IN  /\ unpacked' = Append(unpacked, [from |-> pos, val |-> r.val, to |-> r.pos,
                                          length |-> Len(ch)])
         /\ pos' = r.pos
  /\ UNCHANGED <<ch, packed, ends, structMappers, fnIn, fnOut>>

\* unpacker.structMappers[signature] = mapper, a setup step before decoding
RegisterMapper(signature, mapper) ==
  /\ unpacked = <<>>
  /\ structMappers' =
       [s \in DOMAIN structMappers \cup {signature} |->
          IF s = signature THEN mapper ELSE structMappers[s]]
  /\ structMappers' # structMappers
  /\ UNCHANGED <<ch, packed, ends, pos, unpacked, fnIn, fnOut>>

Next ==
  \/ \E x \in StreamValues : PackValue(x)
  \/ UnpackValue
  \/ \E signature \in MappedSignatures, mapper \in Mappers :
       RegisterMapper(signature, mapper)

Spec == Init /\ [][Next]_vars

(***************************************************************************)
(* The operations one at a time: an input is drawn, the operation is       *)
(* applied to it on a fresh channel or buffer, and its outcome recorded.   *)
(***************************************************************************)
LowWords ==
  { MinInt32, MinInt32 + 1, 0 - 32769, 0 - 32768, 0 - 129, 0 - 128, 0 - 17,
    0 - 16, 0 - 1, 0, 127, 128, 32767, 32768, 2147483646, 2147483647 }

HighWords == {MinInt32, 0 - 2, 0 - 1, 0, 1, 2147483647}

Sizes ==
  { N(0), N(1), N(15), N(16), N(255), N(256), N(291), N(65535),
    Num(1, 0), Num(1, 1), Num(255, 65535), Num(256, 0), Num(291, 17767),
    Num(32767, 65535), Num(32768, 0), Num(65535, 65535),
    Num(Limb, 0), Num(Limb, 1) }

Signatures == {0, 78, 255}

Strings ==
  { <<>>, <<"a">>, <<"e'">>, <<"a", "EUR", "x">>, Rep(15, "a"), Rep(5, "EUR"),
    Rep(8, "e'"), Rep(16, "x"), Rep(85, "EUR"), Rep(128, "e'"), Rep(256, "a") }

\* Values handed to packable, inside and outside the grammar.
PackValues ==
  StreamValues \cup
  { BoolV(TRUE), BoolV(FALSE), FloatV("1.5"), int(127), int(128), StringV(<<>>),
    StringV(Rep(16, "a")), StringV(Rep(128, "e'")),
    ListV(<<>>), ListV(Rep(16, NullV)), ListV(Rep(256, int(1))), MapV(<<>>),
    MapV(<<Entry(<<"x">>, UndefinedV)>>),
    MapV(<<Entry(<<"x">>, UndefinedV), Entry(<<"a">>, NullV),
           Entry(<<"e'">>, UndefinedV)>>),
    MapV(<<Entry(<<"a">>, MapV(<<Entry(<<"a">>, UndefinedV)>>))>>),
    MapV([i \in 1..16 |-> Entry(Rep(i, "a"), IF i % 2 = 0 THEN UndefinedV ELSE int(i))]),
    MapV([i \in 1..17 |-> Entry(Rep(i, "x"), IF i = 3 THEN UndefinedV ELSE NullV)]),
    UndefinedV, FunctionV,
    ListV(<<FunctionV>>), ListV(<<NullV, FunctionV>>), ListV(<<FunctionV, NullV>>),
    MapV(<<Entry(<<"a">>, FunctionV), Entry(<<"x">>, int(1))>>),
    Structure(78, <<FunctionV>>), Structure(78, <<UndefinedV, NullV>>),
    Structure(78, <<NullV, ListV(<<FunctionV, BoolV(TRUE)>>)>>),
    Structure(78, Rep(255, NullV)) }

\* Field counts of the Structures built with `count` null fields.
FieldCounts == {0, 15, 16, 256, 65536}

\* What follows the first byte in the buffers handed to unpack.
Tails == {<<>>, Rep(16, 0), <<196>>, <<1, 192, 129, 97>>}

InitFn ==
  /\ ch = <<>>
  /\ packed = <<>>
  /\ ends = <<>>
  /\ pos = 0
  /\ unpacked = <<>>
  /\ structMappers = <<>>
  /\ fnOut = NotRun
  /\ \/ \E l \in LowWords, h \in HighWords :
          fnIn = [op |-> "packInteger", x |-> Integer(l, h)]
     \/ \E size \in Sizes, op \in {"packStringOfSize", "packListHeader", "packMapHeader"} :
          fnIn = [op |-> op, size |-> size]
     \/ \E size \in Sizes, signature \in Signatures :
          fnIn = [op |-> "packStructHeader", size |-> size, signature |-> signature]
     \/ \E x \in Strings : fnIn = [op |-> "packString", x |-> x]
     \/ \E x \in PackValues : fnIn = [op |-> "packable", x |-> x]
     \/ \E count \in FieldCounts :
          fnIn = [op |-> "packStructure", signature |-> 78, count |-> count]
     \/ \E b \in 0..255, tail \in Tails : fnIn = [op |-> "unpack", buffer |-> <<b>> \o tail]

Emit(events) ==
  /\ fnOut = NotRun
  /\ fnOut' = [done |-> TRUE, events |-> events]
  /\ UNCHANGED <<ch, packed, ends, pos, unpacked, structMappers, fnIn>>

DoPackInteger == fnIn.op = "packInteger" /\ Emit(packInteger(fnIn.x))

DoPackStringOfSize ==
  fnIn.op = "packStringOfSize" /\ Emit(packStringHeader(fnIn.size, TRUE))

DoPackString == fnIn.op = "packString" /\ Emit(packString(fnIn.x, TRUE))

DoPackListHeader == fnIn.op = "packListHeader" /\ Emit(packListHeader(fnIn.size, TRUE))

DoPackMapHeader == fnIn.op = "packMapHeader" /\ Emit(packMapHeader(fnIn.size, TRUE))

DoPackStructHeader ==
  /\ fnIn.op = "packStructHeader"
  /\ Emit(packStructHeader(fnIn.size, fnIn.signature, TRUE))

DoPackable == fnIn.op = "packable" /\ Emit(Pack(fnIn.x))

\* packable(new Structure(signature, fields), onError)() with `count` null fields
DoPackStructure ==
  /\ fnIn.op = "packStructure"
  /\ Emit(Pack(Structure(fnIn.signature, Rep(fnIn.count, NullV))))

DoUnpack ==
  /\ fnIn.op = "unpack"
  /\ fnOut = NotRun
  /\ fnOut' = [done |-> TRUE, result |-> unpack(fnIn.buffer, 0, <<>>)]
  /\ UNCHANGED <<ch, packed, ends, pos, unpacked, structMappers, fnIn>>

NextFn ==
  \/ DoPackInteger
  \/ DoPackStringOfSize
  \/ DoPackString
  \/ DoPackListHeader
  \/ DoPackMapHeader
  \/ DoPackStructHeader
  \/ DoPackable
  \/ DoPackStructure
  \/ DoUnpack

SpecFn == InitFn /\ [][NextFn]_vars

(***************************************************************************)
(* Properties.                                                             *)
(***************************************************************************)
Ran(op) == fnOut.done /\ fnIn.op = op

\* A value as the round trip is allowed to return it: undefined list
\* elements as null, undefined map entries dropped, map entries as a set.
RECURSIVE Canon(_)
Canon(v) ==
  IF v.type = "list"
  THEN ListV([i \in 1..Len(v.elems) |->
                IF v.elems[i].type = "undefined" THEN NullV ELSE Canon(v.elems[i])])
  ELSE IF v.type = "struct"
  THEN Structure(v.signature, [i \in 1..Len(v.fields) |-> Canon(v.fields[i])])
  ELSE IF v.type = "map"
  THEN MapV({Entry(v.entries[i].key, Canon(v.entries[i].val)) :
               i \in {j \in 1..Len(v.entries) : v.entries[j].val.type # "undefined"}})
  ELSE v

\* n as four big-endian bytes.
BigEndian4(n) == <<n.hi \div 256, n.hi % 256, n.lo \div 256, n.lo % 256>>

\* The header the grammar gives a string, list or map of size n < 2^32.
SizeHeader(tiny, m8, m16, m32, n) ==
  IF n.hi = 0 /\ n.lo < 16 THEN <<tiny + n.lo>>
  ELSE IF n.hi = 0 /\ n.lo < 256 THEN <<m8, n.lo>>
  ELSE IF n.hi = 0 THEN <<m16, n.lo \div 256, n.lo % 256>>
  ELSE <<m32>> \o BigEndian4(n)

OnlyWrites(events) == \A i \in 1..Len(events) : events[i].op = "write"

\* v as `width` big-endian two's-complement bytes.
TwosComplement(v, width) ==
  [k \in 1..width |->
     LET shift == width - k
         d == IF shift = 0 THEN 1 ELSE IF shift = 1 THEN 256
              ELSE IF shift = 2 THEN 65536 ELSE 16777216
     IN  (v \div d) % 256]

\* x is the 64-bit value of the int32 x.low.
FitsInt32(x) ==
  \/ x.high = 0 /\ x.low >= 0
  \/ x.high = 0 - 1 /\ x.low < 0

\* The encoding the tier table gives the 64-bit integer x.
IntegerEncoding(x) ==
  IF FitsInt32(x) /\ 0 - 16 <= x.low /\ x.low < 128
  THEN TwosComplement(x.low, 1)
  ELSE IF FitsInt32(x) /\ 0 - 128 <= x.low /\ x.low < 0 - 16
  THEN <<200>> \o TwosComplement(x.low, 1)
  ELSE IF FitsInt32(x) /\ 0 - 32768 <= x.low /\ x.low < 32768
  THEN <<201>> \o TwosComplement(x.low, 2)
  ELSE IF FitsInt32(x)
  THEN <<202>> \o TwosComplement(x.low, 4)
  ELSE <<203>> \o TwosComplement(x.high, 4) \o TwosComplement(x.low, 4)

\* C2: packInteger writes exactly the encoding of the narrowest tier that
\* admits the numeric value of x, whatever its (high, low) words are, and
\* reports nothing.
C2_NarrowestIntegerTier ==
  Ran("packInteger") =>
    /\ OnlyWrites(fnOut.events)
    /\ Written(fnOut.events) = IntegerEncoding(fnIn.x)

\* 2^31 has been packed: the first value past the 32-bit tier, as 0xCB.
C2_Witness ==
  /\ Ran("packInteger")
  /\ fnIn.x = Integer(MinInt32, 0)
  /\ Written(fnOut.events) = <<203, 0, 0, 0, 0, 128, 0, 0, 0>>

\* C9: for every size n < 2^32 the string, list and map headers are the
\* tiny marker with n in the low nibble, or the 8-, 16- or 32-bit marker
\* followed by n as 1, 2 or 4 big-endian bytes; for a string n is the
\* number of UTF-8 bytes, which follow the header.
C9_SizeTiers ==
  /\ Ran("packStringOfSize") /\ NumLt(fnIn.size, Size0x100000000) =>
       /\ OnlyWrites(fnOut.events)
       /\ Written(fnOut.events) = SizeHeader(128, 208, 209, 210, fnIn.size)
  /\ Ran("packListHeader") /\ NumLt(fnIn.size, Size0x100000000) =>
       /\ OnlyWrites(fnOut.events)
       /\ Written(fnOut.events) = SizeHeader(144, 212, 213, 214, fnIn.size)
  /\ Ran("packMapHeader") /\ NumLt(fnIn.size, Size0x100000000) =>
       /\ OnlyWrites(fnOut.events)
       /\ Written(fnOut.events) = SizeHeader(160, 216, 217, 218, fnIn.size)
  /\ Ran("packString") =>
       LET bytes == Flatten([i \in 1..Len(fnIn.x) |-> Utf8Of(fnIn.x[i])])
       IN  /\ OnlyWrites(fnOut.events)
           /\ Written(fnOut.events)
                = SizeHeader(128, 208, 209, 210, N(Len(bytes))) \o bytes

\* A map header for size 0x01234567 has been written, most significant byte first.
C9_Witness ==
  /\ Ran("packMapHeader")
  /\ fnIn.size = Num(291, 17767)
  /\ Written(fnOut.events) = <<218, 1, 35, 69, 103>>

\* The header the grammar gives a Structure of n < 65536 fields.
StructHeader(n, signature) ==
  IF n < 16 THEN <<176 + n, signature>>
  ELSE IF n < 256 THEN <<220, n, signature>>
  ELSE <<221, n \div 256, n % 256, signature>>

\* C10: for every field count n < 65536 and signature s, packStructHeader
\* writes the size in its tier immediately followed by the byte s, and unpack
\* reads size n and signature s back from those bytes followed by n fields.
C10_StructHeaderSignature ==
  Ran("packStructHeader") /\ NumLt(fnIn.size, Size0x10000) =>
    LET n == fnIn.size.lo
        bytes == Written(fnOut.events)
    IN  /\ OnlyWrites(fnOut.events)
        /\ bytes = StructHeader(n, fnIn.signature)
        /\ unpack(bytes \o Rep(n, NULL), 0, <<>>).val
             = Structure(fnIn.signature, Rep(n, NullV))

\* The markers the grammar leaves undefined.
UnknownMarkers ==
  (196..199) \cup (204..207) \cup {211, 215, 219, 222, 223} \cup (224..239)

Hex(b) ==
  LET digits == <<"0", "1", "2", "3", "4", "5", "6", "7", "8", "9",
                  "a", "b", "c", "d", "e", "f">>
  IN  <<digits[(b \div 16) + 1], digits[(b % 16) + 1]>>

\* The unknown-marker error, raised for the buffer's first byte.
UnknownFirstByte(r) ==
  /\ r.val.type = "error"
  /\ r.val.kind = "unknown"
  /\ r.pos = 1

\* C5: unpack raises the unknown-marker error for the first byte of its
\* buffer exactly when that byte is one of the undefined markers, and the
\* message then ends with that byte in hex; a one-byte buffer of any other
\* byte raises no unknown-marker error at all.
C5_UnknownMarker ==
  Ran("unpack") =>
    LET b == fnIn.buffer[1]
        r == fnOut.result
    IN  /\ UnknownFirstByte(r) <=> b \in UnknownMarkers
        /\ UnknownFirstByte(r) =>
             SubSeq(r.val.text, Len(r.val.text) - 1, Len(r.val.text)) = Hex(b)
        /\ Len(fnIn.buffer) = 1 /\ b \notin UnknownMarkers =>
             ~(r.val.type = "error" /\ r.val.kind = "unknown")

\* unpack of the single byte 0xDB has raised "... marker db".
C5_Witness ==
  /\ Ran("unpack")
  /\ fnIn.buffer = <<219>>
  /\ fnOut.result.val.type = "error"
  /\ fnOut.result.val.text = <<"Unknown packed value with marker ", "d", "b">>

\* The map without its undefined-valued entries.
WithoutUndefined(x) ==
  MapV(SelectSeq(x.entries, LAMBDA e : e.val.type # "undefined"))

\* The entry count a map header states.
MapHeaderCount(bytes) ==
  IF bytes[1] = 216 THEN bytes[2]
  ELSE IF bytes[1] = 217 THEN bytes[2] * 256 + bytes[3]
  ELSE bytes[1] - 160

RECURSIVE Encodable(_)
Encodable(v) ==
  IF v.type = "list"
  THEN \A i \in 1..Len(v.elems) :
         v.elems[i].type = "undefined" \/ Encodable(v.elems[i])
  ELSE IF v.type = "struct"
  THEN Len(v.fields) < 256 /\ \A i \in 1..Len(v.fields) : Encodable(v.fields[i])
  ELSE IF v.type = "map"
  THEN \A i \in 1..Len(v.entries) :
         v.entries[i].val.type = "undefined" \/ Encodable(v.entries[i].val)
  ELSE v.type \in {"null", "bool", "float", "int", "string"}

\* C3: a map is packed exactly as the same map without its undefined-valued
\* entries; the count in its header is the number of entries written, and
\* (every value being encodable) that many entries are read back from
\* exactly those bytes.
C3_UndefinedFiltering ==
  Ran("packable") /\ fnIn.x.type = "map" =>
    LET kept == WithoutUndefined(fnIn.x)
        bytes == Written(fnOut.events)
        r == unpack(bytes, 0, <<>>)
    IN  /\ fnOut.events = Pack(kept)
        /\ MapHeaderCount(bytes) = Len(kept.entries)
        /\ Encodable(fnIn.x) =>
             /\ r.val.type = "map"
             /\ Len(r.val.entries) = Len(kept.entries)
             /\ r.pos = Len(bytes)

\* A map of 17 entries, one of them undefined, has been packed with the
\* 8-bit header for 16 entries.
C3_Witness ==
  /\ Ran("packable")
  /\ fnIn.x.type = "map"
  /\ Len(fnIn.x.entries) = 17
  /\ Len(WithoutUndefined(fnIn.x).entries) = 16
  /\ SubSeq(Written(fnOut.events), 1, 2) = <<216, 16>>

\* C6: the Packer never throws: whatever value is packed, no exception
\* escapes packable(x, onError)().
C6_PackerNeverThrows ==
  Ran("packable") \/ Ran("packStructure") => ~Thrown(fnOut.events)

\* C7: once onError has been called while a value is packed, no further
\* byte is written for that value.
C7_NoBytesAfterError ==
  Ran("packable") \/ Ran("packStructure") =>
    \A i, j \in 1..Len(fnOut.events) :
      i < j /\ fnOut.events[i].op = "onError" => fnOut.events[j].op # "write"

\* C1: with no mapper registered, unpacking the bytes written for a value
\* returns that value, up to map entry order and the undefined rules.
C1_RoundTrip ==
  structMappers = <<>> /\ Len(unpacked) >= 1 =>
    Canon(unpacked[1].val) = Canon(packed[1])

\* C8: with no mapper registered, the k-th unpack starts where the k-th
\* packed value starts, ends where it ends and returns it; after as many
\* unpacks as values the cursor is at the end of the stream.
C8_ExactConsumption ==
  structMappers = <<>> =>
    /\ \A k \in 1..Len(unpacked) :
         /\ unpacked[k].from = (IF k = 1 THEN 0 ELSE ends[k - 1])
         /\ unpacked[k].to = ends[k]
         /\ Canon(unpacked[k].val) = Canon(packed[k])
    /\ Len(unpacked) = Len(packed) => pos = Len(ch)

\* Whether a struct header, with its signature byte, starts at cursor p.
StructAt(buffer, p) ==
  /\ p < Len(buffer)
  /\ \/ buffer[p + 1] \in 176..191 /\ p + 2 <= Len(buffer)
     \/ buffer[p + 1] = 220 /\ p + 3 <= Len(buffer)
     \/ buffer[p + 1] = 221 /\ p + 4 <= Len(buffer)

StructSizeAt(buffer, p) ==
  IF buffer[p + 1] = 220 THEN buffer[p + 2]
  ELSE IF buffer[p + 1] = 221 THEN buffer[p + 2] * 256 + buffer[p + 3]
  ELSE buffer[p + 1] - 176

\* The cursor after the signature byte of the struct header at p.
FieldsAt(buffer, p) ==
  IF buffer[p + 1] = 220 THEN p + 3 ELSE IF buffer[p + 1] = 221 THEN p + 4 ELSE p + 2

\* C4: an unpack that reads a struct header whose signature has a mapper
\* returns what the mapper, called with the cursor just after the signature,
\* returns, and leaves the cursor where the mapper left it; with no mapper
\* for the signature it returns (unless a field fails) a Structure of that
\* signature whose fields are the next `size` values in order.
C4_MapperDispatch ==
  \A k \in 1..Len(unpacked) :
    LET u == unpacked[k]
        buffer == SubSeq(ch, 1, u.length)
        q == FieldsAt(buffer, u.from)
        signature == buffer[q]
        size == StructSizeAt(buffer, u.from)
    IN  StructAt(buffer, u.from) =>
          IF signature \in DOMAIN structMappers
          THEN LET m == CallMapper(structMappers[signature], buffer, q, structMappers)
               IN  /\ u.val = m.val
                   /\ u.to = m.pos
                   /\ m.val.type = "mapped" => m.val.at = q
          ELSE LET fields == unpackValues(N(size), buffer, q, structMappers)
               IN  IF IsError(fields) THEN u.val = fields.val
                   ELSE /\ u.val = Structure(signature, fields.val.items)
                        /\ Len(u.val.fields) = size
                        /\ u.to = fields.pos

\* A Structure with a mapped signature has been unpacked by its mapper, and
\* one with an unmapped signature into a Structure.
C4_Witness ==
  /\ Len(unpacked) = 2
  /\ unpacked[1].val.type = "mapped"
  /\ unpacked[1].val.by = "Node"
  /\ unpacked[1].val.args = <<int(1), StringV(<<"x">>)>>
  /\ unpacked[2].val = Structure(82, <<>>)

====
